---- MODULE Spec2Model ----
(***************************************************************************)
(* Physical page allocator with per-frame reference counts and the         *)
(* copy-on-write resolver of kernel/kalloc.c.                              *)
(*                                                                         *)
(* A step of a context is an acquire (with the reads that follow it under  *)
(* the lock) or a write of shared state (a counter, the free list, a       *)
(* page-table entry, a page's content) with the release that follows it;   *)
(* statements on locals are folded into the step before them.              *)
(* The free list, a chain of run structures threaded through the free      *)
(* pages, is kept as the sequence of the addresses on the chain, head      *)
(* first.                                                                  *)
(***************************************************************************)
EXTENDS Integers, Sequences, FiniteSets, TLC

\* ------------------------------------------------------------- sizes
PGSIZE == 4096

\* Number of page frames below PHYSTOP (the real machine has 32768+).
NFrames == 4
\* Number of contexts (harts) that run kernel code in parallel.
NCtx == 2
\* Number of page-table entries (pagetable, va) the contexts work on.
NSlots == 2
\* Number of incr_ref calls of the specification SpecIncr.
MaxIncr == 3
\* Number of times mappages fails.
MaxMapFail == 1

PHYSTOP == NFrames * PGSIZE
MEMREFS == PHYSTOP \div PGSIZE
\* First address after the kernel image: somewhere inside frame 0.
end == PGSIZE \div 2

PGROUNDUP(a) == ((a + PGSIZE - 1) \div PGSIZE) * PGSIZE
PGROUNDDOWN(a) == (a \div PGSIZE) * PGSIZE

Ctx == 1 .. NCtx
Slots == 1 .. NSlots
Frames == 0 .. (MEMREFS - 1)
\* The pages freerange donates: whole pages from PGROUNDUP(end) to pa_end.
freerange == {p \in {i * PGSIZE : i \in Frames} :
                 p >= PGROUNDUP(end) /\ p + PGSIZE <= PHYSTOP}

\* Page-table entry: the physical address and the flag bits.
PTE_V == "V"
PTE_W == "W"
PTE_COW == "COW"
PTE_U == "U"
NullPte == [pa |-> 0, flags |-> {}]
PTE2PA(pte) == pte.pa
PTE_FLAGS(pte) == pte.flags

\* Page contents: the junk of kfree, the junk of kalloc, a user's data.
JunkFree == 1
JunkAlloc == 5
UserData == 7

VARIABLES
  memrefs,    \* memrefs[i] = [lock, count]; lock is 0 (free) or the holder
  kmem,       \* kmem = [lock, freelist]
  page,       \* page[i]: content of frame i
  pagetable,  \* pagetable[s]: the entry of slot s
  busy,       \* busy[s]: the context working on slot s, or 0
  pc,         \* pc[c]: position of context c
  cont,       \* cont[c]: where the running callee returns to
  op,         \* op[c]: the top-level call context c is in
  va,         \* va[c]: the slot of the call
  dst,        \* dst[c]: the slot a fork copies the entry to
  pa,         \* pa[c]: cowcopy's pa
  r,          \* r[c]: kalloc's r, its result (cowcopy's mem)
  flag,       \* flag[c]: cowcopy's flag
  arg,        \* arg[c]: the pa parameter of kfree / incr_ref
  tmp,        \* tmp[c]: the counter value loaded by count++ / count--
  ret,        \* ret[c]: the value the top-level call returned
  path,       \* path[c]: the branch cowcopy took
  old,        \* old[c]: the entry cowcopy found at its start (history)
  refs,       \* refs[i]: references handed out on frame i (history)
  ncalls,     \* incr_ref calls started (SpecIncr)
  nfail,      \* failures of mappages so far
  fr,         \* fr = [pa_start, pa_end, p]: freerange's parameters and its p
  seen        \* seen[c]: the counter value cowcopy's test read, and the
              \* contexts that had read it on the same frame and not yet
              \* decremented it (history)

vars == <<memrefs, kmem, page, pagetable, busy, pc, cont, op, va, dst, pa, r,
          flag, arg, tmp, ret, path, old, refs, ncalls, nfail,
                 fr, seen>>

\* ------------------------------------------------------------- helpers
Range(s) == {s[k] : k \in 1 .. Len(s)}
NoDup(s) == \A j, k \in 1 .. Len(s) : j # k => s[j] # s[k]
Idx(a) == a \div PGSIZE

Goto(c, l) == pc' = [pc EXCEPT ![c] = l]
Call(c, l, k) == pc' = [pc EXCEPT ![c] = l] /\ cont' = [cont EXCEPT ![c] = k]
Back(c) == pc' = [pc EXCEPT ![c] = cont[c]] /\ UNCHANGED cont

\* An acquire() that excludes nobody.
LockFreeAlways(lk) == TRUE

\* acquire() spins until the lock is free.
LockFree(lk) == lk = 0

\* History of a context that has not read a counter in cowcopy.
NotSeen == [count |-> 0, peers |-> {}]

\* ------------------------------------------------------------- kinit
\* kinit: every counter starts at 0 (a global), freerange calls kfree on
\* every page from low to high: each goes 0 -> -1 and is pushed.
RECURSIVE InitList(_)
InitList(S) ==
  IF S = {} THEN <<>>
  ELSE LET m == CHOOSE x \in S : \A y \in S : y <= x
       IN <<m>> \o InitList(S \ {m})

Init ==
  /\ memrefs = [i \in Frames |->
                  [lock |-> 0,
                   count |-> IF i * PGSIZE \in freerange THEN -1 ELSE 0]]
  /\ kmem = [lock |-> 0, freelist |-> InitList(freerange)]
  /\ page = [i \in Frames |-> IF i * PGSIZE \in freerange THEN JunkFree ELSE 0]
  /\ pagetable = [s \in Slots |-> NullPte]
  /\ busy = [s \in Slots |-> 0]
  /\ pc = [c \in Ctx |-> "idle"]
  /\ cont = [c \in Ctx |-> "idle"]
  /\ op = [c \in Ctx |-> "none"]
  /\ va = [c \in Ctx |-> 0]
  /\ dst = [c \in Ctx |-> 0]
  /\ pa = [c \in Ctx |-> 0]
  /\ r = [c \in Ctx |-> 0]
  /\ flag = [c \in Ctx |-> {}]
  /\ arg = [c \in Ctx |-> 0]
  /\ tmp = [c \in Ctx |-> 0]
  /\ ret = [c \in Ctx |-> 0]
  /\ path = [c \in Ctx |-> "none"]
  /\ old = [c \in Ctx |-> NullPte]
  /\ refs = [i \in Frames |-> 0]
  /\ ncalls = 0
  /\ nfail = 0
  /\ fr = [pa_start |-> end, pa_end |-> PHYSTOP, p |-> PHYSTOP]
  /\ seen = [c \in Ctx |-> NotSeen]

\* ------------------------------------------------------------- kalloc
\* kalloc without its test of r.
KallocFoundAlways(rr) == TRUE

\* if(r) { ... }
KallocFound(rr) == rr # 0

\* acquire(&kmem.lock); r = kmem.freelist; if(r) ...
KallocAcquire(c) ==
  /\ pc[c] = "ka_acquire"
  /\ LockFree(kmem.lock)
  /\ kmem' = [kmem EXCEPT !.lock = c]
  /\ LET rr == IF kmem.freelist = <<>> THEN 0 ELSE Head(kmem.freelist)
     IN /\ r' = [r EXCEPT ![c] = rr]
        /\ Goto(c, IF KallocFound(rr) THEN "ka_ref" ELSE "ka_release")
  /\ UNCHANGED <<memrefs, page, pagetable, busy, cont, op, va, dst, pa, flag,
                 arg, tmp, ret, path, old, refs, ncalls, nfail,
                 fr, seen>>

\* acquire(&(memrefs[i].lock));
KallocRef(c) ==
  /\ pc[c] = "ka_ref"
  /\ LockFree(memrefs[Idx(r[c])].lock)
  /\ memrefs' = [memrefs EXCEPT ![Idx(r[c])].lock = c]
  /\ Goto(c, "ka_set")
  /\ UNCHANGED <<kmem, page, pagetable, busy, cont, op, va, dst, pa, r, flag,
                 arg, tmp, ret, path, old, refs, ncalls, nfail,
                 fr, seen>>

\* kalloc counting up, memrefs[i].count++, instead of setting 1.
KallocCountIncrement(n) == n + 1

\* kalloc leaving the counter as it found it.
KallocCountKeep(n) == n

\* kalloc setting the counter to 0.
KallocCountZero(n) == 0

\* memrefs[i].count = 1;
KallocCount(n) == 1

\* memrefs[i].count = 1; release(&(memrefs[i].lock));
KallocSet(c) ==
  /\ pc[c] = "ka_set"
  /\ memrefs' = [memrefs EXCEPT
                   ![Idx(r[c])] = [lock |-> 0, count |-> KallocCount(@.count)]]
  /\ Goto(c, "ka_release")
  /\ UNCHANGED <<kmem, page, pagetable, busy, cont, op, va, dst, pa, r, flag,
                 arg, tmp, ret, path, old, refs, ncalls, nfail,
                 fr, seen>>

\* kmem.freelist = r->next (inside if(r)); release(&kmem.lock);
\* if(r) memset((char*)r, 5, PGSIZE); return (void*)r;
KallocRelease(c) ==
  /\ pc[c] = "ka_release"
  /\ IF KallocFound(r[c])
       THEN /\ kmem' = [lock |-> 0, freelist |-> Tail(kmem.freelist)]
            /\ refs' = [refs EXCEPT ![Idx(r[c])] = 1]
            /\ page' = [page EXCEPT ![Idx(r[c])] = JunkAlloc]
       ELSE /\ kmem' = [kmem EXCEPT !.lock = 0]
            /\ UNCHANGED <<refs, page>>
  /\ Back(c)
  /\ UNCHANGED <<memrefs, pagetable, busy, op, va, dst, pa, r, flag, arg, tmp,
                 ret, path, old, ncalls, nfail,
                 fr, seen>>

kalloc(c) ==
  \/ KallocAcquire(c)
  \/ KallocRef(c)
  \/ KallocSet(c)
  \/ KallocRelease(c)

\* ------------------------------------------------------------- kfree
\* The range check of kfree and incr_ref.
BadAddr(a) == (a % PGSIZE) # 0 \/ a < end \/ a >= PHYSTOP

\* if(... bad address ...) panic("kfree"); acquire(&(memrefs[i].lock));
\* memrefs[i].count--  (the load)
KfreeAcquire(c) ==
  /\ pc[c] = "kf_acquire"
  /\ IF BadAddr(arg[c])
       THEN /\ Goto(c, "panic")
            /\ UNCHANGED <<memrefs, tmp>>
       ELSE /\ LockFree(memrefs[Idx(arg[c])].lock)
            /\ memrefs' = [memrefs EXCEPT ![Idx(arg[c])].lock = c]
            /\ tmp' = [tmp EXCEPT ![c] = memrefs[Idx(arg[c])].count]
            /\ Goto(c, "kf_dec")
  /\ UNCHANGED <<kmem, page, pagetable, busy, cont, op, va, dst, pa, r, flag,
                 arg, ret, path, old, refs, ncalls, nfail,
                 fr, seen>>

\* kfree with its test off by one: if(memrefs[i].count > 1) goto notzero;
KfreeSharedAboveOne(n) == n > 1

\* kfree without reference counts: every call frees the page.
KfreeSharedNever(n) == FALSE

\* kfree with the test if(memrefs[i].count >= 0) goto notzero;
KfreeSharedAtZero(n) == n >= 0

\* if(memrefs[i].count > 0) goto notzero;
KfreeStillShared(n) == n > 0

\* memrefs[i].count--  (the store); if(count > 0) goto notzero;
\* memset(pa, 1, PGSIZE);
KfreeDec(c) ==
  /\ pc[c] = "kf_dec"
  /\ memrefs' = [memrefs EXCEPT ![Idx(arg[c])].count = tmp[c] - 1]
  /\ refs' = [refs EXCEPT ![Idx(arg[c])] = @ - 1]
  /\ IF KfreeStillShared(tmp[c] - 1)
       THEN /\ Goto(c, "kf_release")
            /\ UNCHANGED page
       ELSE /\ page' = [page EXCEPT ![Idx(arg[c])] = JunkFree]
            /\ Goto(c, "kf_kmem")
  /\ UNCHANGED <<kmem, pagetable, busy, cont, op, va, dst, pa, r, flag, arg,
                 tmp, ret, path, old, ncalls, nfail,
                 fr, seen>>

\* acquire(&kmem.lock);
KfreeKmem(c) ==
  /\ pc[c] = "kf_kmem"
  /\ LockFree(kmem.lock)
  /\ kmem' = [kmem EXCEPT !.lock = c]
  /\ Goto(c, "kf_push")
  /\ UNCHANGED <<memrefs, page, pagetable, busy, cont, op, va, dst, pa, r,
                 flag, arg, tmp, ret, path, old, refs, ncalls, nfail,
                 fr, seen>>

\* kfree without release(&kmem.lock) after the push.
KfreePushKeepsLock(c) ==
  /\ pc[c] = "kf_push"
  /\ kmem' = [lock |-> c, freelist |-> <<arg[c]>> \o kmem.freelist]
  /\ Goto(c, "kf_release")
  /\ UNCHANGED <<memrefs, page, pagetable, busy, cont, op, va, dst, pa, r,
                 flag, arg, tmp, ret, path, old, refs, ncalls, nfail,
                 fr, seen>>

\* r->next = kmem.freelist; kmem.freelist = r; release(&kmem.lock);
KfreePush(c) ==
  /\ pc[c] = "kf_push"
  /\ kmem' = [lock |-> 0, freelist |-> <<arg[c]>> \o kmem.freelist]
  /\ Goto(c, "kf_release")
  /\ UNCHANGED <<memrefs, page, pagetable, busy, cont, op, va, dst, pa, r,
                 flag, arg, tmp, ret, path, old, refs, ncalls, nfail,
                 fr, seen>>

\* notzero: release(&(memrefs[i].lock));
KfreeRelease(c) ==
  /\ pc[c] = "kf_release"
  /\ memrefs' = [memrefs EXCEPT ![Idx(arg[c])].lock = 0]
  /\ Back(c)
  /\ UNCHANGED <<kmem, page, pagetable, busy, op, va, dst, pa, r, flag, arg,
                 tmp, ret, path, old, refs, ncalls, nfail,
                 fr, seen>>

kfree(c) ==
  \/ KfreeAcquire(c)
  \/ KfreeDec(c)
  \/ KfreeKmem(c)
  \/ KfreePush(c)
  \/ KfreeRelease(c)

\* ------------------------------------------------------------- incr_ref
\* if(... bad address ...) return -1; acquire(&(memrefs[i].lock));
\* memrefs[i].count++  (the load)
IncrAcquire(c) ==
  /\ pc[c] = "ir_acquire"
  /\ IF BadAddr(arg[c])
       THEN /\ ret' = [ret EXCEPT ![c] = -1]
            /\ Back(c)
            /\ UNCHANGED <<memrefs, tmp>>
       ELSE /\ LockFree(memrefs[Idx(arg[c])].lock)
            /\ memrefs' = [memrefs EXCEPT ![Idx(arg[c])].lock = c]
            /\ tmp' = [tmp EXCEPT ![c] = memrefs[Idx(arg[c])].count]
            /\ Goto(c, "ir_store")
            /\ UNCHANGED <<ret, cont>>
  /\ UNCHANGED <<kmem, page, pagetable, busy, op, va, dst, pa, r, flag, arg,
                 path, old, refs, ncalls, nfail,
                 fr, seen>>

\* memrefs[i].count++  (the store); release(&(memrefs[i].lock)); return 1;
IncrStore(c) ==
  /\ pc[c] = "ir_store"
  /\ memrefs' = [memrefs EXCEPT
                   ![Idx(arg[c])] = [lock |-> 0, count |-> tmp[c] + 1]]
  /\ refs' = [refs EXCEPT ![Idx(arg[c])] = @ + 1]
  /\ ret' = [ret EXCEPT ![c] = 1]
  /\ Back(c)
  /\ UNCHANGED <<kmem, page, pagetable, busy, op, va, dst, pa, r, flag, arg,
                 tmp, path, old, ncalls, nfail,
                 fr, seen>>

incr_ref(c) ==
  \/ IncrAcquire(c)
  \/ IncrStore(c)

\* ------------------------------------------------------------- iscow
\* Virtual addresses are counted in pages.  The pages 1 .. NSlots have an
\* entry in the page table; page 0 and the pages from NSlots + 1 to MAXVA
\* have none; the pages above MAXVA are beyond the address space.
MAXVA == NSlots + 1
VAs == 0 .. (MAXVA + 1)

\* walk() finds the entry of (pagetable, va); a va with no entry gives 0.
walk(s) == IF s \in Slots THEN s ELSE 0

\* iscow without its test of PTE_V.
iscowNoValid(s) ==
  IF s > MAXVA
    THEN FALSE
    ELSE IF walk(s) = 0
      THEN FALSE
      ELSE PTE_COW \in PTE_FLAGS(pagetable[walk(s)])

\* if(va > MAXVA) return 0; pte = walk(pagetable, va, 0);
\* if(pte==0 || (*pte&PTE_V)==0) return 0; return (*pte&PTE_COW);
iscow(s) ==
  IF s > MAXVA
    THEN FALSE
    ELSE IF walk(s) = 0 \/ PTE_V \notin PTE_FLAGS(pagetable[walk(s)])
      THEN FALSE
      ELSE PTE_COW \in PTE_FLAGS(pagetable[walk(s)])

\* ------------------------------------------------------------- cowcopy
\* acquire(&(memrefs[i].lock));
CowAcquire(c) ==
  /\ pc[c] = "cow_acquire"
  /\ LockFree(memrefs[Idx(pa[c])].lock)
  /\ memrefs' = [memrefs EXCEPT ![Idx(pa[c])].lock = c]
  /\ Goto(c, "cow_check")
  /\ UNCHANGED <<kmem, page, pagetable, busy, cont, op, va, dst, pa, r, flag,
                 arg, tmp, ret, path, old, refs, ncalls, nfail,
                 fr, seen>>

\* cowcopy with the test if(memrefs[i].count >= 1).
CowSoleOwnerAtLeast(n) == n >= 1

\* if(memrefs[i].count == 1)
CowSoleOwner(n) == n = 1

\* The sole-owner branch without *pte &= (~PTE_COW).
CowReclaimKeepCow(fl) == fl \cup {PTE_W}

\* *pte |= PTE_W; *pte &= (~PTE_COW);
CowReclaimFlags(fl) == (fl \cup {PTE_W}) \ {PTE_COW}

\* Context d has stored the decrement of cowcopy's final kfree.
PastDec(d) ==
  \/ pc[d] \in {"kf_kmem", "kf_push", "kf_release"} /\ cont[d] = "cow_rest"
  \/ pc[d] \in {"cow_rest", "done"} /\ path[d] = "dup"

\* The contexts that are in cowcopy on the frame of c, have read its
\* counter and have not yet decremented it (history).
Peers(c) ==
  {d \in Ctx \ {c} : /\ op[d] = "fault" /\ pa[d] = pa[c]
                      /\ seen[d].count # 0 /\ ~PastDec(d)}

\* cowcopy with release(&(memrefs[i].lock)) missing before kalloc().
CowCheckKeepsLock(c) ==
  /\ pc[c] = "cow_check"
  /\ IF CowSoleOwner(memrefs[Idx(pa[c])].count)
       THEN /\ pagetable' = [pagetable EXCEPT
                               ![va[c]].flags = CowReclaimFlags(@)]
            /\ ret' = [ret EXCEPT ![c] = pa[c]]
            /\ path' = [path EXCEPT ![c] = "sole"]
            /\ Goto(c, "done")
            /\ memrefs' = [memrefs EXCEPT ![Idx(pa[c])].lock = 0]
            /\ UNCHANGED cont
       ELSE /\ path' = [path EXCEPT ![c] = "dup"]
            /\ Call(c, "ka_acquire", "cow_copy")
            /\ UNCHANGED <<pagetable, ret, memrefs>>
  /\ seen' = [seen EXCEPT ![c] = [count |-> memrefs[Idx(pa[c])].count,
                                  peers |-> Peers(c)]]
  /\ UNCHANGED <<kmem, page, busy, op, va, dst, pa, r, flag, arg, tmp, old,
                 refs, ncalls, nfail, fr>>

\* The test of the counter: the sole-owner branch up to its return, or the
\* release before the call of kalloc.
CowCheck(c) ==
  /\ pc[c] = "cow_check"
  /\ IF CowSoleOwner(memrefs[Idx(pa[c])].count)
       THEN /\ pagetable' = [pagetable EXCEPT
                               ![va[c]].flags = CowReclaimFlags(@)]
            /\ ret' = [ret EXCEPT ![c] = pa[c]]
            /\ path' = [path EXCEPT ![c] = "sole"]
            /\ Goto(c, "done")
            /\ UNCHANGED cont
       ELSE /\ path' = [path EXCEPT ![c] = "dup"]
            /\ Call(c, "ka_acquire", "cow_copy")
            /\ UNCHANGED <<pagetable, ret>>
  /\ memrefs' = [memrefs EXCEPT ![Idx(pa[c])].lock = 0]
  /\ seen' = [seen EXCEPT ![c] = [count |-> memrefs[Idx(pa[c])].count,
                                  peers |-> Peers(c)]]
  /\ UNCHANGED <<kmem, page, busy, op, va, dst, pa, r, flag, arg, tmp, old,
                 refs, ncalls, nfail, fr>>

\* The duplicate branch without flag &= (~PTE_COW).
CowNewFlagsKeepCow(fl) == fl \cup {PTE_W}

\* flag = PTE_FLAGS(*pte); flag |= PTE_W; flag &= (~PTE_COW);
CowNewFlags(fl) == (fl \cup {PTE_W}) \ {PTE_COW}

\* if(mem == 0) return 0;
\* memmove(mem, (char*)pa, PGSIZE); *pte &= (~PTE_V); flag = ...
CowCopy(c) ==
  /\ pc[c] = "cow_copy"
  /\ IF r[c] = 0
       THEN /\ ret' = [ret EXCEPT ![c] = 0]
            /\ path' = [path EXCEPT ![c] = "oom"]
            /\ Goto(c, "done")
            /\ UNCHANGED <<page, pagetable, flag>>
       ELSE /\ page' = [page EXCEPT ![Idx(r[c])] = page[Idx(pa[c])]]
            /\ pagetable' = [pagetable EXCEPT ![va[c]].flags = @ \ {PTE_V}]
            /\ flag' = [flag EXCEPT
                          ![c] = CowNewFlags(PTE_FLAGS(pagetable[va[c]]) \ {PTE_V})]
            /\ Goto(c, "cow_map")
            /\ UNCHANGED <<ret, path>>
  /\ UNCHANGED <<memrefs, kmem, busy, cont, op, va, dst, pa, r, arg, tmp, old,
                 refs, ncalls, nfail,
                 fr, seen>>

\* mappages() installs [pa, perm | PTE_V] in the entry and returns 0, or
\* installs nothing and returns -1.
mappages(s, a, perm) == [pagetable EXCEPT ![s] = [pa |-> a, flags |-> perm \cup {PTE_V}]]

\* mappages(...) == 0: goto rest; rest: kfree((char*)PGROUNDDOWN(pa));
CowMapOk(c) ==
  /\ pc[c] = "cow_map"
  /\ pagetable' = mappages(va[c], r[c], flag[c])
  /\ arg' = [arg EXCEPT ![c] = PGROUNDDOWN(pa[c])]
  /\ Call(c, "kf_acquire", "cow_rest")
  /\ UNCHANGED <<memrefs, kmem, page, busy, op, va, dst, pa, r, flag, tmp,
                 ret, path, old, refs, ncalls, nfail,
                 fr, seen>>

\* mappages(...) != 0: goto freeing; freeing: kfree(mem);
CowMapFail(c) ==
  /\ pc[c] = "cow_map"
  /\ nfail < MaxMapFail
  /\ nfail' = nfail + 1
  /\ arg' = [arg EXCEPT ![c] = r[c]]
  /\ path' = [path EXCEPT ![c] = "mapfail"]
  /\ Call(c, "kf_acquire", "cow_freeing")
  /\ UNCHANGED <<memrefs, kmem, page, pagetable, busy, op, va, dst, pa, r,
                 flag, tmp, ret, old, refs, ncalls, fr, seen>>

\* freeing: ... return 0;
CowFreeing(c) ==
  /\ pc[c] = "cow_freeing"
  /\ ret' = [ret EXCEPT ![c] = 0]
  /\ Goto(c, "done")
  /\ UNCHANGED <<memrefs, kmem, page, pagetable, busy, cont, op, va, dst, pa,
                 r, flag, arg, tmp, path, old, refs, ncalls, nfail,
                 fr, seen>>

\* rest: ... return (uint64)mem;
CowRest(c) ==
  /\ pc[c] = "cow_rest"
  /\ ret' = [ret EXCEPT ![c] = r[c]]
  /\ Goto(c, "done")
  /\ UNCHANGED <<memrefs, kmem, page, pagetable, busy, cont, op, va, dst, pa,
                 r, flag, arg, tmp, path, old, refs, ncalls, nfail,
                 fr, seen>>

cowcopy(c) ==
  \/ CowAcquire(c)
  \/ CowCheck(c)
  \/ CowCopy(c)
  \/ CowMapOk(c)
  \/ CowMapFail(c)
  \/ CowFreeing(c)
  \/ CowRest(c)

\* ------------------------------------------------------------- callers
\* The rest of the kernel, as far as it calls the allocator: it allocates
\* and maps a page, shares a mapped page with a forked child, unmaps a
\* page, and resolves a write fault on a COW page.  One context at a time
\* works on a page-table entry (busy).

Free(s) == busy[s] = 0
Valid(s) == PTE_V \in PTE_FLAGS(pagetable[s])

\* A context takes an unmapped entry and calls kalloc() for it.
CallAlloc(c, s) ==
  /\ pc[c] = "idle"
  /\ Free(s) /\ ~Valid(s)
  /\ busy' = [busy EXCEPT ![s] = c]
  /\ op' = [op EXCEPT ![c] = "alloc"]
  /\ va' = [va EXCEPT ![c] = s]
  /\ Call(c, "ka_acquire", "am_map")
  /\ UNCHANGED <<memrefs, kmem, page, pagetable, dst, pa, r, flag, arg, tmp,
                 ret, path, old, refs, ncalls, nfail,
                 fr, seen>>

\* With the page of kalloc(): the caller fills it and maps it writable;
\* without one it gives up.
AllocMap(c) ==
  /\ pc[c] = "am_map"
  /\ IF r[c] = 0
       THEN UNCHANGED <<page, pagetable>>
       ELSE /\ page' = [page EXCEPT ![Idx(r[c])] = UserData]
            /\ pagetable' = mappages(va[c], r[c], {PTE_W, PTE_U})
  /\ ret' = [ret EXCEPT ![c] = r[c]]
  /\ Goto(c, "done")
  /\ UNCHANGED <<memrefs, kmem, busy, cont, op, va, dst, pa, r, flag, arg,
                 tmp, path, old, refs, ncalls, nfail,
                 fr, seen>>

\* fork: the parent's entry s loses PTE_W and gets PTE_COW, the child's
\* entry t gets the same page and flags, then incr_ref(pa).
CallFork(c, s, t) ==
  /\ pc[c] = "idle"
  /\ s # t
  /\ Free(s) /\ Valid(s)
  /\ Free(t) /\ ~Valid(t)
  /\ busy' = [busy EXCEPT ![s] = c, ![t] = c]
  /\ op' = [op EXCEPT ![c] = "fork"]
  /\ va' = [va EXCEPT ![c] = s]
  /\ dst' = [dst EXCEPT ![c] = t]
  /\ LET shared == [pa |-> PTE2PA(pagetable[s]),
                    flags |-> (PTE_FLAGS(pagetable[s]) \ {PTE_W}) \cup {PTE_COW}]
     IN pagetable' = [pagetable EXCEPT ![s] = shared, ![t] = shared]
  /\ arg' = [arg EXCEPT ![c] = PTE2PA(pagetable[s])]
  /\ Call(c, "ir_acquire", "done")
  /\ UNCHANGED <<memrefs, kmem, page, pa, r, flag, tmp, ret, path, old, refs,
                 ncalls, nfail,
                 fr, seen>>

\* unmap: the entry is cleared and its page given to kfree().
CallUnmap(c, s) ==
  /\ pc[c] = "idle"
  /\ Free(s) /\ Valid(s)
  /\ busy' = [busy EXCEPT ![s] = c]
  /\ op' = [op EXCEPT ![c] = "unmap"]
  /\ va' = [va EXCEPT ![c] = s]
  /\ pagetable' = [pagetable EXCEPT ![s] = NullPte]
  /\ arg' = [arg EXCEPT ![c] = PTE2PA(pagetable[s])]
  /\ Call(c, "kf_acquire", "done")
  /\ UNCHANGED <<memrefs, kmem, page, dst, pa, r, flag, tmp, ret, path, old,
                 refs, ncalls, nfail,
                 fr, seen>>

\* A write fault on a COW page: cowcopy(pagetable, va) up to its
\* va = PGROUNDDOWN(va); pte = walk(pagetable, va, 0); pa = PTE2PA(*pte);
CallFault(c, s) ==
  /\ pc[c] = "idle"
  /\ Free(s) /\ iscow(s)
  /\ busy' = [busy EXCEPT ![s] = c]
  /\ op' = [op EXCEPT ![c] = "fault"]
  /\ va' = [va EXCEPT ![c] = s]
  /\ pa' = [pa EXCEPT ![c] = PTE2PA(pagetable[walk(s)])]
  /\ old' = [old EXCEPT ![c] = pagetable[walk(s)]]
  /\ Goto(c, "cow_acquire")
  /\ UNCHANGED <<memrefs, kmem, page, pagetable, cont, dst, r, flag, arg, tmp,
                 ret, path, refs, ncalls, nfail,
                 fr, seen>>

\* The call is over: the context lets go of its entries and its locals.
Return(c) ==
  /\ pc[c] = "done"
  /\ busy' = [s \in Slots |-> IF busy[s] = c THEN 0 ELSE busy[s]]
  /\ pc' = [pc EXCEPT ![c] = "idle"]
  /\ cont' = [cont EXCEPT ![c] = "idle"]
  /\ op' = [op EXCEPT ![c] = "none"]
  /\ va' = [va EXCEPT ![c] = 0]
  /\ dst' = [dst EXCEPT ![c] = 0]
  /\ pa' = [pa EXCEPT ![c] = 0]
  /\ r' = [r EXCEPT ![c] = 0]
  /\ flag' = [flag EXCEPT ![c] = {}]
  /\ arg' = [arg EXCEPT ![c] = 0]
  /\ tmp' = [tmp EXCEPT ![c] = 0]
  /\ ret' = [ret EXCEPT ![c] = 0]
  /\ path' = [path EXCEPT ![c] = "none"]
  /\ old' = [old EXCEPT ![c] = NullPte]
  /\ seen' = [d \in Ctx |-> IF d = c THEN NotSeen
                             ELSE [seen[d] EXCEPT !.peers = @ \ {c}]]
  /\ UNCHANGED <<memrefs, kmem, page, pagetable, refs, ncalls, nfail, fr>>

\* panic() never returns: a context at "panic" takes no further step.
Next ==
  \E c \in Ctx :
    \/ \E s \in Slots : CallAlloc(c, s)
    \/ \E s, t \in Slots : CallFork(c, s, t)
    \/ \E s \in Slots : CallUnmap(c, s)
    \/ \E s \in Slots : CallFault(c, s)
    \/ AllocMap(c)
    \/ kalloc(c)
    \/ kfree(c)
    \/ incr_ref(c)
    \/ cowcopy(c)
    \/ Return(c)

Spec == Init /\ [][Next]_vars

\* ------------------------------------------------------------- SpecFair
\* A step of context c inside the call it has started.
Step(c) ==
  \/ AllocMap(c)
  \/ kalloc(c)
  \/ kfree(c)
  \/ incr_ref(c)
  \/ cowcopy(c)
  \/ Return(c)

\* A hart that is inside a call keeps executing: a step that stays
\* possible is taken.  acquire() spins on a test-and-set, which gives a
\* waiting hart no turn: a lock that is taken again and again by others
\* may never be found free.
SpecFair == Spec /\ \A c \in Ctx : WF_vars(Step(c))

\* ------------------------------------------------------------- SpecRaw
\* cowcopy(pagetable, va) called on an entry that exists and has no PTE_V:
\* va = PGROUNDDOWN(va); pte = walk(pagetable, va, 0); pa = PTE2PA(*pte);
\* with no test of pte or of PTE_V in between.
CallFaultInvalid(c, s) ==
  /\ pc[c] = "idle"
  /\ Free(s) /\ walk(s) # 0 /\ ~Valid(s)
  /\ busy' = [busy EXCEPT ![s] = c]
  /\ op' = [op EXCEPT ![c] = "badfault"]
  /\ va' = [va EXCEPT ![c] = s]
  /\ pa' = [pa EXCEPT ![c] = PTE2PA(pagetable[walk(s)])]
  /\ old' = [old EXCEPT ![c] = pagetable[walk(s)]]
  /\ Goto(c, "cow_acquire")
  /\ UNCHANGED <<memrefs, kmem, page, pagetable, cont, dst, r, flag, arg, tmp,
                 ret, path, refs, ncalls, nfail, fr, seen>>

NextRaw ==
  \/ Next
  \/ \E c \in Ctx : \E s \in Slots : CallFaultInvalid(c, s)

SpecRaw == Init /\ [][NextRaw]_vars

\* ------------------------------------------------------------- SpecIncr
\* incr_ref called on any address by contexts running in parallel.
TestAddrs == {0, PGSIZE, PGSIZE + 1, 2 * PGSIZE, PHYSTOP}

CallIncr(c, a) ==
  /\ pc[c] = "idle"
  /\ ncalls < MaxIncr
  /\ ncalls' = ncalls + 1
  /\ op' = [op EXCEPT ![c] = "incr"]
  /\ arg' = [arg EXCEPT ![c] = a]
  /\ Call(c, "ir_acquire", "done")
  /\ UNCHANGED <<memrefs, kmem, page, pagetable, busy, va, dst, pa, r, flag,
                 tmp, ret, path, old, refs, nfail, fr, seen>>

NextIncr ==
  \E c \in Ctx :
    \/ \E a \in TestAddrs : CallIncr(c, a)
    \/ incr_ref(c)
    \/ Return(c)

SpecIncr == Init /\ [][NextIncr]_vars

\* ------------------------------------------------------------- SpecInit
\* kinit on the boot hart: initlock() on every lock, then
\* freerange(pa_start, pa_end).  kinit calls freerange(end, PHYSTOP); the
\* specification also runs it on the other ranges inside [end, PHYSTOP].
Starts == {end} \cup {i * PGSIZE : i \in 1 .. (NFrames - 1)}
               \cup {i * PGSIZE + 1 : i \in 1 .. (NFrames - 1)}
Ends == {PHYSTOP, PHYSTOP - 1} \cup {i * PGSIZE : i \in 1 .. (NFrames - 1)}

InitBoot ==
  /\ memrefs = [i \in Frames |-> [lock |-> 0, count |-> 0]]
  /\ kmem = [lock |-> 0, freelist |-> <<>>]
  /\ page = [i \in Frames |-> 0]
  /\ pagetable = [s \in Slots |-> NullPte]
  /\ busy = [s \in Slots |-> 0]
  /\ pc = [c \in Ctx |-> IF c = 1 THEN "fr_loop" ELSE "idle"]
  /\ cont = [c \in Ctx |-> "idle"]
  /\ op = [c \in Ctx |-> IF c = 1 THEN "kinit" ELSE "none"]
  /\ va = [c \in Ctx |-> 0]
  /\ dst = [c \in Ctx |-> 0]
  /\ pa = [c \in Ctx |-> 0]
  /\ r = [c \in Ctx |-> 0]
  /\ flag = [c \in Ctx |-> {}]
  /\ arg = [c \in Ctx |-> 0]
  /\ tmp = [c \in Ctx |-> 0]
  /\ ret = [c \in Ctx |-> 0]
  /\ path = [c \in Ctx |-> "none"]
  /\ old = [c \in Ctx |-> NullPte]
  /\ refs = [i \in Frames |-> 0]
  /\ ncalls = 0
  /\ nfail = 0
  /\ \E s \in Starts, e \in Ends :
       fr = [pa_start |-> s, pa_end |-> e, p |-> PGROUNDUP(s)]
  /\ seen = [c \in Ctx |-> NotSeen]

\* freerange with the loop test p <= (char*)pa_end.
FreerangeMoreInclusive(p, e) == p <= e

\* for(; p + PGSIZE <= (char*)pa_end; p += PGSIZE)
FreerangeMore(p, e) == p + PGSIZE <= e

\* for(; p + PGSIZE <= (char*)pa_end; p += PGSIZE) kfree(p);
FreerangeNext(c) ==
  /\ pc[c] = "fr_loop"
  /\ IF FreerangeMore(fr.p, fr.pa_end)
       THEN /\ arg' = [arg EXCEPT ![c] = fr.p]
            /\ fr' = [fr EXCEPT !.p = @ + PGSIZE]
            /\ Call(c, "kf_acquire", "fr_loop")
       ELSE /\ Goto(c, "done")
            /\ UNCHANGED <<arg, fr, cont>>
  /\ UNCHANGED <<memrefs, kmem, page, pagetable, busy, op, va, dst, pa, r,
                 flag, tmp, ret, path, old, refs, ncalls, nfail, seen>>

NextInit ==
  \E c \in Ctx :
    \/ FreerangeNext(c)
    \/ kfree(c)

SpecInit == InitBoot /\ [][NextInit]_vars

\* ------------------------------------------------------------- SpecQuery
\* The callers of Spec, and iscow(pagetable, va) called on any va at any
\* time: it takes no lock and does not wait for the entry to be at rest.
CallIscow(c, v) ==
  /\ pc[c] = "idle"
  /\ op' = [op EXCEPT ![c] = "iscow"]
  /\ va' = [va EXCEPT ![c] = v]
  /\ ret' = [ret EXCEPT ![c] = IF iscow(v) THEN 1 ELSE 0]
  /\ Goto(c, "done")
  /\ UNCHANGED <<memrefs, kmem, page, pagetable, busy, cont, dst, pa, r, flag,
                 arg, tmp, path, old, refs, ncalls, nfail, fr, seen>>

NextQuery ==
  \/ Next
  \/ \E c \in Ctx : \E v \in VAs : CallIscow(c, v)

SpecQuery == Init /\ [][NextQuery]_vars

\* ------------------------------------------------------------- properties
Count(p) == memrefs[Idx(p)].count
OnFreeList(p) == p \in Range(kmem.freelist)
Quiescent == \A c \in Ctx : pc[c] = "idle"
Stepped(c) == pc'[c] # pc[c]
Mappings(p) == {s \in Slots : Valid(s) /\ PTE2PA(pagetable[s]) = p}
SameCounts == \A i \in Frames : memrefs'[i].count = memrefs[i].count
SameFreeList == kmem'.freelist = kmem.freelist

\* C1 (state part): the free list holds no frame twice and no frame on
\* which a reference is out, and two contexts that kalloc has just
\* returned to hold different frames.
C1State ==
  /\ NoDup(kmem.freelist)
  /\ \A p \in freerange : refs[Idx(p)] > 0 => ~OnFreeList(p)
  /\ \A c, d \in Ctx :
       (c # d /\ pc[c] \in {"am_map", "cow_copy"} /\ pc[d] \in {"am_map", "cow_copy"}
          /\ r[c] # 0)
       => r[c] # r[d]

\* C1 (step part): the frame kalloc takes off the list and returns is one
\* on which no reference is out.
C1Step ==
  \A c \in Ctx :
    (pc[c] = "ka_release" /\ Stepped(c) /\ r[c] # 0)
    => (refs[Idx(r[c])] <= 0 /\ r[c] = Head(kmem.freelist))

\* C1: no double-issue.  With kfree(f) only called by a holder of a
\* reference on f, kalloc never returns a frame that an earlier kalloc
\* returned and whose references have not all been given back; the free
\* list never holds a frame twice nor a frame that is allocated.
C1_NoDoubleIssue == []C1State /\ [][C1Step]_vars

\* Two kalloc calls have returned at the same time, and the frame left on
\* the free list is one that came back through kfree.
C1_Witness ==
  \E c, d \in Ctx :
    /\ c # d
    /\ pc[c] = "am_map" /\ pc[d] = "am_map"
    /\ r[c] # 0 /\ r[d] # 0
    /\ Len(kmem.freelist) = 1
    /\ Head(kmem.freelist) # PGROUNDUP(end)

\* C2 (state part): while references are out on f, f is off the free list.
C2State == \A p \in freerange : refs[Idx(p)] >= 1 => ~OnFreeList(p)

\* C2 (step part): a kfree(f) goes on to push f exactly when it gives back
\* the last of the 1 + k references, and the push puts f, which is not on
\* the list, at its head once.
C2Step ==
  \A c \in Ctx :
    /\ (pc[c] = "kf_dec" /\ Stepped(c))
       => (pc'[c] = "kf_kmem" <=> refs[Idx(arg[c])] = 1)
    /\ (pc[c] = "kf_push" /\ Stepped(c))
       => (~OnFreeList(arg[c]) /\ kmem'.freelist = <<arg[c]>> \o kmem.freelist)

\* C2: for f returned by kalloc and incremented k times, the first k calls
\* of kfree(f) leave f off the free list and call k+1 pushes it once.
C2_LastFreePushes == []C2State /\ [][C2Step]_vars

\* cowcopy's kfree of the original frame has just pushed it: the frame was
\* shared (one incr_ref) and this is the second kfree on it.
C2_Witness ==
  \E c \in Ctx :
    /\ pc[c] = "kf_release" /\ cont[c] = "cow_rest"
    /\ kmem.freelist # <<>> /\ Head(kmem.freelist) = arg[c]
    /\ refs[Idx(arg[c])] = 0

\* C3: with no call in progress, a frame of the managed range is on the
\* free list if and only if no valid entry points at it.
C3_FreeIffUnmapped ==
  Quiescent => \A p \in freerange : OnFreeList(p) <=> Mappings(p) = {}

\* C4: with no call in progress, the counter of every allocated frame is
\* the number of valid entries that point at it.
C4_CountIsMappings ==
  Quiescent => \A p \in freerange :
                 ~OnFreeList(p) => Count(p) = Cardinality(Mappings(p))

\* C5: every valid writable entry points at a frame with counter 1, and
\* every valid entry of a frame with counter above 1 is COW and read-only.
C5_WritableIsExclusive ==
  \A s \in Slots :
    Valid(s) =>
      LET n == Count(PTE2PA(pagetable[s]))
          fl == PTE_FLAGS(pagetable[s])
      IN /\ PTE_W \in fl => n = 1
         /\ n > 1 => (PTE_COW \in fl /\ PTE_W \notin fl)

\* Two faults on the two mappings of one frame have both been resolved
\* while the other was in progress.
C5_Witness ==
  \E c, d \in Ctx :
    /\ c # d
    /\ op[c] = "fault" /\ op[d] = "fault"
    /\ pc[c] = "done" /\ pc[d] = "done"
    /\ old[c].pa = old[d].pa
    /\ ret[c] # 0 /\ ret[d] # 0
    /\ PTE_W \in PTE_FLAGS(pagetable[va[c]])
    /\ PTE_W \in PTE_FLAGS(pagetable[va[d]])

\* C6 as first stated: whenever cowcopy finds the counter of its frame
\* above 1 and kalloc gives it a frame g, it returns g with the entry
\* pointing at g.
C6_DupAlwaysSucceeds ==
  \A c \in Ctx :
    (pc[c] = "done" /\ op[c] = "fault" /\ path[c] \in {"dup", "mapfail"})
    => (ret[c] = r[c] /\ ret[c] # 0 /\ PTE2PA(pagetable[va[c]]) = r[c])

\* C6 (state part): on return from the duplicate branch.
C6State ==
  \A c \in Ctx :
    (pc[c] = "done" /\ op[c] = "fault" /\ path[c] = "dup")
    => /\ ret[c] = r[c] /\ r[c] # 0 /\ r[c] # PTE2PA(old[c])
       /\ r[c] \in freerange
       /\ Count(r[c]) = 1
       /\ pagetable[va[c]] =
            [pa |-> r[c],
             flags |-> (PTE_FLAGS(old[c]) \cup {PTE_W}) \ {PTE_COW}]
       /\ PTE_V \in PTE_FLAGS(pagetable[va[c]])

\* C6 (step part): the copy, the decrement, the other entries.
C6Step ==
  \A c \in Ctx :
    /\ (pc[c] = "cow_copy" /\ Stepped(c) /\ r[c] # 0)
       => page'[Idx(r[c])] = page[Idx(pa[c])]
    /\ (pc[c] = "kf_dec" /\ cont[c] = "cow_rest" /\ Stepped(c))
       => (/\ arg[c] = PTE2PA(old[c])
           /\ \A i \in Frames :
                memrefs'[i].count =
                  IF i = Idx(arg[c]) THEN memrefs[i].count - 1
                  ELSE memrefs[i].count)
    /\ (op[c] = "fault" /\ Stepped(c) /\ pc[c] # "done")
       => \A t \in Slots : t # va[c] => pagetable'[t] = pagetable[t]

\* C6 (amended): when the counter of the faulting mapping's frame f is
\* above 1, kalloc gives a frame g and mappages succeeds, cowcopy returns
\* g # f with counter 1 and the content of f, the mapping points at g with
\* PTE_W set, PTE_COW cleared and the other flags kept, the counter of f
\* goes down by exactly 1 and no other mapping changes.
C6_Duplicate == []C6State /\ [][C6Step]_vars

C6_Witness ==
  \E c \in Ctx :
    /\ pc[c] = "done" /\ op[c] = "fault" /\ path[c] = "dup"
    /\ ret[c] # 0
    /\ Mappings(PTE2PA(old[c])) # {}

\* C7 (state part): on return from the sole-owner branch.
C7State ==
  \A c \in Ctx :
    (pc[c] = "done" /\ op[c] = "fault" /\ path[c] = "sole")
    => /\ ret[c] = PTE2PA(old[c])
       /\ pagetable[va[c]] =
            [pa |-> PTE2PA(old[c]),
             flags |-> (PTE_FLAGS(old[c]) \cup {PTE_W}) \ {PTE_COW}]
       /\ Count(PTE2PA(old[c])) = 1

\* C7 (step part): the steps of the branch change no counter, not the
\* free list, no page and no other entry.
C7Step ==
  \A c \in Ctx :
    (op[c] = "fault" /\ Stepped(c) /\ pc[c] \in {"cow_acquire", "cow_check"}
       /\ pc'[c] \in {"cow_check", "done"})
    => /\ SameCounts
       /\ kmem' = kmem
       /\ page' = page
       /\ \A t \in Slots : t # va[c] => pagetable'[t] = pagetable[t]
       /\ PTE2PA(pagetable'[va[c]]) = PTE2PA(pagetable[va[c]])

\* C7: with counter 1, cowcopy returns the frame itself, sets PTE_W and
\* clears PTE_COW in place, and leaves the counter at 1, the free list, the
\* other counters and the frame of the mapping as they were.
C7_SoleOwner == []C7State /\ [][C7Step]_vars

C7_Witness ==
  \E c \in Ctx :
    /\ pc[c] = "done" /\ op[c] = "fault" /\ path[c] = "sole"
    /\ PTE_COW \in PTE_FLAGS(old[c])
    /\ PTE_W \in PTE_FLAGS(pagetable[va[c]])

\* C8 (state part): on return from cowcopy after kalloc found nothing.
C8State ==
  \A c \in Ctx :
    (pc[c] = "done" /\ op[c] = "fault" /\ path[c] = "oom")
    => (ret[c] = 0 /\ pagetable[va[c]] = old[c])

\* C8 (step part): kalloc on the empty list, and the steps of a cowcopy
\* that ends there, change no counter, not the free list, no entry and
\* no page.
C8Step ==
  \A c \in Ctx :
    /\ (pc[c] = "ka_acquire" /\ Stepped(c) /\ kmem.freelist = <<>>)
       => (r'[c] = 0 /\ pc'[c] = "ka_release" /\ SameCounts /\ SameFreeList
           /\ pagetable' = pagetable /\ page' = page)
    /\ (pc[c] = "ka_release" /\ Stepped(c) /\ r[c] = 0)
       => (r'[c] = 0 /\ pc'[c] = cont[c] /\ memrefs' = memrefs /\ SameFreeList
           /\ pagetable' = pagetable /\ page' = page)
    /\ (op[c] = "fault" /\ Stepped(c)
          /\ \/ pc[c] = "cow_acquire"
             \/ pc[c] = "cow_check" /\ Count(pa[c]) > 1
             \/ pc[c] = "cow_copy" /\ r[c] = 0)
       => (SameCounts /\ kmem' = kmem /\ pagetable' = pagetable /\ page' = page)
    /\ (pc[c] = "cow_copy" /\ Stepped(c) /\ r[c] = 0)
       => (ret'[c] = 0 /\ pc'[c] = "done")

\* C8: on the empty free list kalloc returns 0 and changes no counter and
\* nothing of the free list, and a cowcopy that needs a copy returns 0 and
\* leaves the entry, the counter of its frame and the free list as they were.
C8_Exhaustion == []C8State /\ [][C8Step]_vars

C8_Witness ==
  \E c \in Ctx :
    /\ pc[c] = "done" /\ op[c] = "fault" /\ path[c] = "oom"
    /\ kmem.freelist = <<>>
    /\ Count(PTE2PA(old[c])) > 1

\* C9: when mappages fails, cowcopy returns 0 with the entry valid again
\* and pointing at the original frame.
C9_MappingRestored ==
  \A c \in Ctx :
    (pc[c] = "done" /\ op[c] = "fault" /\ path[c] = "mapfail")
    => /\ ret[c] = 0
       /\ PTE_V \in PTE_FLAGS(pagetable[va[c]])
       /\ PTE2PA(pagetable[va[c]]) = PTE2PA(old[c])

\* The counter a frame has after kinit.
InitCount(i) == IF i * PGSIZE \in freerange THEN -1 ELSE 0

\* C10 (state part): every counter is its value after kinit plus the
\* number of incr_ref calls that succeeded on it, and a call returns 1 on
\* a page-aligned address of the managed range and -1 on any other.
C10State ==
  /\ \A i \in Frames : memrefs[i].count = InitCount(i) + refs[i]
  /\ \A c \in Ctx :
       (pc[c] = "done" /\ op[c] = "incr")
       => ret[c] = IF arg[c] \in freerange THEN 1 ELSE -1

\* C10 (step part): the store raises the counter of the frame by 1 and no
\* other; no step touches the free list; a call on a bad address changes
\* nothing.
C10Step ==
  /\ SameFreeList
  /\ \A c \in Ctx :
       /\ (pc[c] = "ir_store" /\ Stepped(c))
          => \A i \in Frames :
               memrefs'[i].count =
                 IF i = Idx(arg[c]) THEN memrefs[i].count + 1
                 ELSE memrefs[i].count
       /\ (pc[c] = "ir_acquire" /\ Stepped(c))
          => SameCounts
       /\ (pc[c] = "ir_acquire" /\ Stepped(c) /\ arg[c] \notin freerange)
          => (memrefs' = memrefs /\ kmem' = kmem /\ pc'[c] = "done")

\* C10: incr_ref on a page-aligned address of the managed range adds
\* exactly 1 to that frame's counter and returns 1, m calls in parallel add
\* exactly m, the free list and the other counters are untouched; on any
\* other address it returns -1 and changes nothing.
C10_IncrRef == []C10State /\ [][C10Step]_vars

\* Two calls on one frame overlapped and both returned 1.
C10_Witness ==
  \E c, d \in Ctx :
    /\ c # d
    /\ pc[c] = "done" /\ pc[d] = "done"
    /\ arg[c] = arg[d] /\ ret[c] = 1 /\ ret[d] = 1
    /\ memrefs[Idx(arg[c])].count = InitCount(Idx(arg[c])) + 2

\* ------------------------------------------------------------- C11
\* The whole frames of the range freerange was given.
RangeR == {p \in {i * PGSIZE : i \in Frames} :
             p >= PGROUNDUP(fr.pa_start) /\ p + PGSIZE <= fr.pa_end}

\* C11: after kinit over the range R, every whole frame of R is on the
\* free list exactly once with counter -1, no frame outside R is on the
\* list, and outside R no counter, lock or page was touched (counter 0);
\* kinit's own call, freerange(end, PHYSTOP), ends in the state Init.
C11_AfterKinit ==
  /\ NoDup(kmem.freelist)
  /\ Range(kmem.freelist) \subseteq RangeR
  /\ \A i \in Frames :
       i * PGSIZE \notin RangeR
       => (memrefs[i] = [lock |-> 0, count |-> 0] /\ page[i] = 0)
  /\ pc[1] = "done"
     => /\ Range(kmem.freelist) = RangeR
        /\ \A p \in RangeR : memrefs[Idx(p)] = [lock |-> 0, count |-> -1]
        /\ kmem.lock = 0
  /\ (pc[1] = "done" /\ fr.pa_start = end /\ fr.pa_end = PHYSTOP)
     => /\ RangeR = freerange
        /\ kmem.freelist = InitList(freerange)
        /\ \A i \in Frames : memrefs[i].count = InitCount(i)
        /\ \A i \in Frames :
             page[i] = IF i * PGSIZE \in freerange THEN JunkFree ELSE 0

\* kinit's call of freerange(end, PHYSTOP) is over.
C11_Witness ==
  /\ pc[1] = "done" /\ op[1] = "kinit"
  /\ fr.pa_start = end /\ fr.pa_end = PHYSTOP
  /\ Len(kmem.freelist) = NFrames - 1
  /\ Count(PGROUNDUP(end)) = -1

\* ------------------------------------------------------------- C12
\* C12: iscow(pagetable, va) returns 0 for a va above MAXVA, for a va with
\* no entry and for an entry without PTE_V, and otherwise returns non-zero
\* exactly when the entry has PTE_COW; it changes no counter, no lock,
\* nothing of the free list, no page and no entry.
C12Step ==
  \A c \in Ctx :
    (pc[c] = "idle" /\ op'[c] = "iscow")
    => LET v == va'[c]
       IN /\ v > MAXVA => ret'[c] = 0
          /\ v \notin Slots => ret'[c] = 0
          /\ (v \in Slots /\ PTE_V \notin PTE_FLAGS(pagetable[v]))
             => ret'[c] = 0
          /\ (v \in Slots /\ PTE_V \in PTE_FLAGS(pagetable[v]))
             => (ret'[c] # 0 <=> PTE_COW \in PTE_FLAGS(pagetable[v]))
          /\ memrefs' = memrefs /\ kmem' = kmem
          /\ pagetable' = pagetable /\ page' = page

C12_IscowQuery == [][C12Step]_vars

\* iscow has answered non-zero for a shared page, and zero for an entry
\* that has PTE_COW but not PTE_V.
C12_Witness ==
  \E c, d \in Ctx :
    /\ c # d
    /\ pc[c] = "done" /\ op[c] = "iscow" /\ ret[c] = 1
    /\ pc[d] = "done" /\ op[d] = "iscow" /\ ret[d] = 0
    /\ va[d] \in Slots
    /\ PTE_COW \in PTE_FLAGS(pagetable[va[d]])
    /\ PTE_V \notin PTE_FLAGS(pagetable[va[d]])

\* ------------------------------------------------------------- C13
\* C13 (state part): a frame kalloc has just returned has counter 1.
C13State ==
  \A c \in Ctx :
    (pc[c] \in {"am_map", "cow_copy"} /\ r[c] # 0) => Count(r[c]) = 1

\* C13 (step part): kalloc finds the counter of the free frame at -1 or 0
\* and sets it to 1, and returns that frame with its counter at 1.
C13Step ==
  \A c \in Ctx :
    /\ (pc[c] = "ka_set" /\ Stepped(c))
       => (Count(r[c]) \in {-1, 0} /\ memrefs'[Idx(r[c])].count = 1)
    /\ (pc[c] = "ka_release" /\ Stepped(c) /\ r[c] # 0)
       => (r'[c] = r[c] /\ memrefs'[Idx(r[c])].count = 1)

\* C13: whenever kalloc returns a frame f, the counter of f is exactly 1
\* at the moment of return, whether it was -1 (never allocated) or 0
\* (released) while f was free, and whatever the other contexts do.
C13_ReturnedCountIsOne == []C13State /\ [][C13Step]_vars

\* kalloc has returned the topmost frame to a cowcopy, so this is not the
\* frame's first allocation, while another context is inside kfree on
\* another frame.
C13_Witness ==
  \E c, d \in Ctx :
    /\ c # d
    /\ pc[c] = "cow_copy" /\ r[c] = PHYSTOP - PGSIZE
    /\ Count(r[c]) = 1
    /\ pc[d] \in {"kf_dec", "kf_kmem", "kf_push"} /\ arg[d] # r[c]

\* ------------------------------------------------------------- C14
\* The locks context c holds.
HoldsFrameLock(c) == \E i \in Frames : memrefs[i].lock = c
HoldsKmemLock(c) == kmem.lock = c

\* C14: the lock-ordering rule: a frame lock is acquired and released
\* before the free-list lock is acquired, so no context ever holds a frame
\* lock and the free-list lock at the same time.
C14_NoNestedLocks ==
  \A c \in Ctx : ~(HoldsFrameLock(c) /\ HoldsKmemLock(c))

\* ------------------------------------------------------------- C15
\* C15: at each point where cowcopy calls kalloc or kfree (the kalloc of
\* the duplicate branch, the kfree of the new frame after mappages failed,
\* the kfree of the original frame), the caller holds no lock.
C15_CowcopyCallsUnlocked ==
  \A c \in Ctx :
    (op[c] = "fault" /\ pc[c] \in {"ka_acquire", "kf_acquire"})
    => (~HoldsFrameLock(c) /\ ~HoldsKmemLock(c))

\* cowcopy is about to call kfree on the new frame after mappages failed,
\* while the other context holds the lock of the original frame.
C15_Witness ==
  \E c, d \in Ctx :
    /\ c # d
    /\ op[c] = "fault" /\ pc[c] = "kf_acquire" /\ cont[c] = "cow_freeing"
    /\ memrefs[Idx(pa[c])].lock = d

\* ------------------------------------------------------------- C18
\* Context c is in the duplicate branch of cowcopy, between the release of
\* the original frame's lock and the store of its own kfree's decrement.
InDup(c) ==
  /\ op[c] = "fault" /\ path[c] = "dup"
  /\ \/ pc[c] \in {"ka_acquire", "ka_ref", "ka_set", "ka_release",
                    "cow_copy", "cow_map"}
     \/ pc[c] \in {"kf_acquire", "kf_dec"} /\ cont[c] = "cow_rest"

\* C18: while cowcopy is in its duplicate branch, up to its own kfree of
\* the original frame, that frame is not on the free list, has a
\* reference out, and is not the frame any kalloc has taken or returned;
\* the copy reads a frame that is still allocated.
C18_NoUseAfterFree ==
  \A c \in Ctx :
    InDup(c)
    => /\ ~OnFreeList(pa[c])
       /\ Count(pa[c]) >= 1
       /\ refs[Idx(pa[c])] >= 1
       /\ \A d \in Ctx :
            (pc[d] \in {"ka_ref", "ka_set", "ka_release", "am_map", "cow_copy"})
            => r[d] # pa[c]

\* cowcopy is about to copy from a frame whose counter it read as 2 and
\* whose other sharer has given its reference back in the meantime.
C18_Witness ==
  \E c \in Ctx :
    /\ InDup(c) /\ pc[c] = "cow_copy" /\ r[c] # 0
    /\ seen[c].count = 2
    /\ Count(pa[c]) = 1

\* ------------------------------------------------------------- C19
\* Contexts c and d run cowcopy on two mappings of one frame, both read
\* its counter as 2, and the later of the two reads came before the
\* decrement of the other context.
Pair(c, d) ==
  /\ c # d
  /\ op[c] = "fault" /\ op[d] = "fault"
  /\ PTE2PA(old[c]) = PTE2PA(old[d])
  /\ va[c] # va[d]
  /\ seen[c].count = 2 /\ seen[d].count = 2
  /\ (d \in seen[c].peers \/ c \in seen[d].peers)

\* C19 (state part): both are in the duplicate branch, and once both have
\* returned a frame each mapping points at its own new frame with counter
\* 1, PTE_W set and PTE_COW clear.
C19State ==
  \A c, d \in Ctx :
    Pair(c, d)
    => /\ path[c] \in {"dup", "oom", "mapfail"}
       /\ (pc[c] = "done" /\ pc[d] = "done" /\ ret[c] # 0 /\ ret[d] # 0)
          => /\ ret[c] # ret[d]
             /\ ret[c] # PTE2PA(old[c]) /\ ret[d] # PTE2PA(old[c])
             /\ PTE2PA(pagetable[va[c]]) = ret[c]
             /\ Count(ret[c]) = 1
             /\ PTE_V \in PTE_FLAGS(pagetable[va[c]])
             /\ PTE_W \in PTE_FLAGS(pagetable[va[c]])
             /\ PTE_COW \notin PTE_FLAGS(pagetable[va[c]])

\* C19 (step part): the first of the two final kfrees takes the counter
\* of f from 2 to 1 and leaves f off the list; the second takes it to 0
\* and pushes f, which is not on the list, once.
C19Step ==
  \A c, d \in Ctx :
    (Pair(c, d) /\ cont[c] = "cow_rest" /\ Stepped(c))
    => /\ pc[c] = "kf_dec"
          => /\ arg[c] = PTE2PA(old[c])
             /\ IF PastDec(d)
                  THEN memrefs'[Idx(arg[c])].count = 0 /\ pc'[c] = "kf_kmem"
                  ELSE memrefs'[Idx(arg[c])].count = 1 /\ pc'[c] = "kf_release"
       /\ pc[c] = "kf_push"
          => /\ PastDec(d)
             /\ ~OnFreeList(arg[c])
             /\ Count(arg[c]) = 0
             /\ kmem'.freelist = <<arg[c]>> \o kmem.freelist

C20_CounterPartition ==
  Quiescent
  => \A p \in freerange :
       /\ OnFreeList(p) => Count(p) \in {-1, 0}
       /\ ~OnFreeList(p) => Count(p) >= 1

\* At rest with a frame never allocated, a frame released and a frame
\* that is shared.
C20_Witness ==
  /\ Quiescent
  /\ \E p, q, g \in freerange :
       /\ OnFreeList(p) /\ Count(p) = -1
       /\ OnFreeList(q) /\ Count(q) = 0
       /\ ~OnFreeList(g) /\ Count(g) = 2

\* ------------------------------------------------------------- C16
\* The holder of the lock context c is about to acquire (0: the lock is
\* free, or c is not at an acquire).
WaitsFor(c) ==
  CASE pc[c] \in {"ka_acquire", "kf_kmem"} -> kmem.lock
    [] pc[c] = "ka_ref" -> memrefs[Idx(r[c])].lock
    [] pc[c] \in {"kf_acquire", "ir_acquire"} ->
         IF BadAddr(arg[c]) THEN 0 ELSE memrefs[Idx(arg[c])].lock
    [] pc[c] = "cow_acquire" -> memrefs[Idx(pa[c])].lock
    [] OTHER -> 0

\* A deadlock: a set of contexts each of which waits for a lock held by a
\* context of the set or by a context that is in no call.
Deadlocked(S) ==
  \A c \in S :
    /\ WaitsFor(c) # 0
    /\ WaitsFor(c) \in S \/ pc[WaitsFor(c)] \in {"idle", "panic"}

NoDeadlock == \A S \in SUBSET Ctx : S # {} => ~Deadlocked(S)

\* Every call that was started returns.
Completes == \A c \in Ctx : (pc[c] # "idle") ~> (pc[c] = "done")

\* Every hart gets a lock it keeps finding free at some of its attempts.
FairLocks == \A c \in Ctx : SF_vars(Step(c))

\* C16 as first stated: no reachable state is a deadlock, and every call
\* that was started returns, the harts taking every step that stays
\* possible (weak fairness).
C16_CompletesWeak == []NoDeadlock /\ Completes

\* C16 (amended): no reachable state is a deadlock, and every call that
\* was started returns provided a hart that finds its lock free again and
\* again gets it (strong fairness of lock acquisition).
C16_CompletesStrong == []NoDeadlock /\ (FairLocks => Completes)

\* One context holds a frame lock and waits for the free-list lock, which
\* the other holds together with a frame lock.
C16_Witness ==
  \E c, d \in Ctx :
    /\ c # d
    /\ pc[c] = "kf_kmem" /\ HoldsFrameLock(c) /\ WaitsFor(c) = d
    /\ pc[d] = "ka_set" /\ HoldsFrameLock(d) /\ HoldsKmemLock(d)

\* ------------------------------------------------------------- C17
\* C17: cowcopy called on an entry without PTE_V goes from its entry to
\* panic and nowhere else: it acquires no lock, allocates no frame and
\* leaves the entry as it found it.
C17_InvalidEntryAborts ==
  \A c \in Ctx :
    op[c] = "badfault"
    => /\ pc[c] \in {"cow_acquire", "panic"}
       /\ ~HoldsFrameLock(c) /\ ~HoldsKmemLock(c)
       /\ r[c] = 0
       /\ pagetable[va[c]] = old[c]

====
